---- MODULE Spec2Model ----
(***************************************************************************)
(* solid-tiny-query: the cache store of the query client and the state     *)
(* machine of createQuery (src/src/hooks/create-query.ts), as a state      *)
(* machine over a millisecond clock.                                        *)
(*                                                                          *)
(* One step of the model is one JavaScript task: a signal write by the     *)
(* application together with the memos and effects it triggers, a timer    *)
(* callback, or the continuation of an awaited fetch up to the end of the  *)
(* refetch call that owns it.                                               *)
(***************************************************************************)
EXTENDS Integers, Sequences, FiniteSets, TLC

(* ------------------------------ domains -------------------------------- *)

Insts == {"q1", "q2"}          \* createQuery call sites sharing one client
Keys == {"k1", "k2"}           \* canonical keys a queryKey() accessor yields
Vals == {"d1", "d2"}           \* what a queryFn may resolve to (primitives)
Errs == {"boom"}               \* what queryFn may reject with
Undef == "undefined"           \* JavaScript undefined, for string-valued slots
Null == "null"                 \* JavaScript null (getCache's miss result)
NaN == "NaN"                   \* the number NaN, which JSON cannot express
NoNum == <<>>                  \* an omitted numeric option; <<n>> is the number n

(* bound of the exploration *)
MaxInputs == 4                 \* application calls and clock advances in a run

(* program constants *)
DebounceDelay == 100           \* createDebouncedWatch(..., { delay: 100 })
RetryDelay == 1400             \* await sleep(1400)
DefaultRetry == 2              \* opts.retry ?? 2
GcInterval == 60000
DefaultGcTime == 300000        \* nowrapData.gcTime: 5 * 1000 * 60
StartTime == 1                 \* Date.now() of the first task (never 0)

\* the clock moves by a millisecond or by a long wait, cut short by the next timer
Jumps == {1, RetryDelay}

VARIABLES
  now,        \* Date.now()
  cache,      \* state.cache: canonical key -> [jsonData, timestamp]
  gcConf,     \* state.gcConf: canonical key -> duration
  client,     \* client options: [defaultStaleTime, hasOnError]
  opts,       \* per instance createQuery options, results: what queryFn yields
  mounted,    \* the instances that were created
  q,          \* per instance closure state and signals
  chains,     \* performFetch chains in flight (awaiting queryFn or sleeping)
  cbLog,      \* the error callbacks the last task invoked, in call order
  inputs,     \* number of application calls and clock advances so far
  lastEvent   \* the task that produced this state

vars == <<now, cache, gcConf, client, opts, mounted, q, chains, cbLog,
          inputs, lastEvent>>

(* ------------------------------ helpers -------------------------------- *)

\* isDef(value): value !== null && value !== undefined
isDef(value) == value # Null /\ value # Undef

isDefNum(n) == n # NoNum

MinOf(S) == CHOOSE x \in S : \A y \in S : x <= y

\* JSON.stringify / JSON.parse on the model's primitive values
\* undefined has no JSON text and a non-finite number is written as null
NoText == <<>>
JSONstringify(v) ==
  IF v = Undef THEN NoText
  ELSE IF v = NaN THEN <<"json", Null>>
  ELSE <<"json", v>>
JSONparses(s) == Len(s) = 2 /\ s[1] = "json"
JSONparse(s) == s[2]

(* ----------------------------- cache store ----------------------------- *)

\* an absent property of state.cache / state.gcConf
NoEntry ==
  [present |-> FALSE, jsonData |-> <<>>, timestamp |-> 0, written |-> Undef]

hasEntry(c, key) == c[key].present

\* removeCache: setState('cache', realKey, undefined)
removeCache(c, key) == [c EXCEPT ![key] = NoEntry]

\* setCache: JSON.stringify(value) stored with timestamp ?? Date.now();
\* written remembers the value that was passed in
setCache(c, key, value, timestamp) ==
  [c EXCEPT ![key] = [present |-> TRUE, jsonData |-> JSONstringify(value),
                      timestamp |-> timestamp, written |-> value]]

\* a resolution that never falls back on the client default
realStaleTimeOf_noDefault(staleTime, defaultStaleTime) ==
  IF isDefNum(staleTime) THEN staleTime[1] ELSE 0

realStaleTimeOf(staleTime, defaultStaleTime) ==
  IF isDefNum(staleTime) THEN staleTime[1] ELSE defaultStaleTime

\* a getCache without the stale-time-zero short cut
getCache_noZeroCheck(c, defaultStaleTime, key, staleTime, t) ==
  LET realStaleTime == realStaleTimeOf(staleTime, defaultStaleTime) IN
  IF ~hasEntry(c, key) \/ c[key].jsonData = <<>> THEN Null
  ELSE IF t - c[key].timestamp > realStaleTime /\ realStaleTime > 0 THEN Null
  ELSE IF JSONparses(c[key].jsonData) THEN JSONparse(c[key].jsonData)
  ELSE Null

\* a getCache that treats an entry exactly staleTime old as stale
getCache_staleAtLimit(c, defaultStaleTime, key, staleTime, t) ==
  LET realStaleTime == realStaleTimeOf(staleTime, defaultStaleTime) IN
  IF realStaleTime = 0 THEN Null
  ELSE IF ~hasEntry(c, key) \/ c[key].jsonData = <<>> THEN Null
  ELSE IF t - c[key].timestamp >= realStaleTime /\ realStaleTime > 0 THEN Null
  ELSE IF JSONparses(c[key].jsonData) THEN JSONparse(c[key].jsonData)
  ELSE Null

\* getCache: the value it returns
getCache(c, defaultStaleTime, key, staleTime, t) ==
  LET realStaleTime == realStaleTimeOf(staleTime, defaultStaleTime) IN
  IF realStaleTime = 0 THEN Null
  ELSE IF ~hasEntry(c, key) \/ c[key].jsonData = <<>> THEN Null
  ELSE IF t - c[key].timestamp > realStaleTime /\ realStaleTime > 0 THEN Null
  ELSE IF JSONparses(c[key].jsonData) THEN JSONparse(c[key].jsonData)
  ELSE Null

\* a getCache whose catch branch leaves the entry in place
getCacheStore_keepsCorrupt(c, defaultStaleTime, key, staleTime, t) == c

\* a getCache that also evicts the entry it finds stale
getCacheStore_evictsStale(c, defaultStaleTime, key, staleTime, t) ==
  LET realStaleTime == realStaleTimeOf(staleTime, defaultStaleTime) IN
  IF realStaleTime = 0 THEN c
  ELSE IF ~hasEntry(c, key) \/ c[key].jsonData = <<>> THEN c
  ELSE IF t - c[key].timestamp > realStaleTime /\ realStaleTime > 0
       THEN removeCache(c, key)
  ELSE IF JSONparses(c[key].jsonData) THEN c
  ELSE removeCache(c, key)

\* getCache: the store it leaves (an unparsable entry is removed)
getCacheStore(c, defaultStaleTime, key, staleTime, t) ==
  LET realStaleTime == realStaleTimeOf(staleTime, defaultStaleTime) IN
  IF realStaleTime = 0 THEN c
  ELSE IF ~hasEntry(c, key) \/ c[key].jsonData = <<>> THEN c
  ELSE IF t - c[key].timestamp > realStaleTime /\ realStaleTime > 0 THEN c
  ELSE IF JSONparses(c[key].jsonData) THEN c
  ELSE removeCache(c, key)

(* ---------------------------- query instance --------------------------- *)

\* const cacheValue = createMemo(() => getCache(realKey(), opts.staleTime))
cacheValueOf(c, i, key, t) ==
  LET cachedValue == getCache(c, client.defaultStaleTime, key, opts[i].staleTime, t)
  IN IF isDef(cachedValue) THEN cachedValue ELSE Undef

\* the memo reads state.cache only when the resolved stale time is not 0
memoReadsCache(i) ==
  realStaleTimeOf(opts[i].staleTime, client.defaultStaleTime) # 0

\* a watch that records the cached value and never adopts it
adoptCached_never(qi, v) == [qi EXCEPT !.cacheValue = v]

\* createWatch(cacheValue, v => ...): adopt a changed cached value
adoptCached(qi, v) ==
  IF isDef(v) /\ v # qi.data /\ ~qi.isLoading /\ ~qi.isError
  THEN [qi EXCEPT !.data = v, !.cacheValue = v]
  ELSE [qi EXCEPT !.cacheValue = v]

\* the cacheValue memo is recomputed at t and yields v; its watch runs only if
\* the value differs from the previous one
recompute(qi, v, t) ==
  LET qm == [qi EXCEPT !.memoAt = t]
  IN IF v # qi.cacheValue THEN adoptCached(qm, v) ELSE qm

\* the reactive graph after a write of state.cache[key]: every live instance
\* whose memo tracks that entry recomputes it
afterCacheWrite(qq, c, key, t) ==
  [j \in Insts |->
     IF j \in mounted /\ ~qq[j].isCleanedUp /\ qq[j].realKey = key
        /\ memoReadsCache(j)
     THEN recompute(qq[j], cacheValueOf(c, j, key, t), t)
     ELSE qq[j]]

\* a backoff that retries whether or not the owner was disposed
retryAfterSleep_always(qi) == TRUE

\* after the backoff sleep the next attempt is made only if the owner has not
\* been cleaned up: line 118
retryAfterSleep(qi) == ~qi.isCleanedUp

\* a debounce that keeps a pending timer and its key instead of restarting
armDebounce_keepFirst(qi, key, t) ==
  IF qi.debounce # 0 THEN qi
  ELSE [qi EXCEPT !.debounce = t + DebounceDelay, !.debounceKey = key]

\* createDebouncedWatch(realKey, onKeyChange, {delay: 100}): a change of
\* realKey at t replaces the pending timer by one for the new key
armDebounce(qi, key, t) ==
  [qi EXCEPT !.debounce = t + DebounceDelay, !.debounceKey = key]

\* a success that is shown whatever the key has become
keyStillCurrent_always(tempKey, realKey) == TRUE

\* if (tempKey === realKey()): the result is shown only under the start key
keyStillCurrent(tempKey, realKey) == tempKey = realKey

\* a success cached under the key that is current when it arrives
writeKey_current(c, qi) == qi.realKey

\* actions.setCache(tempKey, result): the key a chain writes its result under
writeKey(c, qi) == c.tempKey

\* a refetch that ignores the enabled condition
refetchAllowed_always(qi) == TRUE

\* clearCache, lines 62-66: removeCache for every key of historyKeys
clearKeys(c, keys) ==
  [k \in Keys |-> IF k \in keys THEN removeCache(c, k)[k] ELSE c[k]]

\* the reactive graph after the entries of keys were removed
afterCacheClear(qq, c, keys, t) ==
  [j \in Insts |->
     IF qq[j].realKey \in keys
     THEN afterCacheWrite(qq, c, qq[j].realKey, t)[j]
     ELSE qq[j]]

\* refetch, line 129: if (!enabled()) return
refetchAllowed(qi) == qi.enabled

\* a fence that lets every completion through
isStaleFetch_never(latestFetchId, id) == FALSE

\* generation fence: latestFetchId !== id
isStaleFetch(latestFetchId, id) == latestFetchId # id

\* a retry test that allows one attempt too many
shouldRetry_inclusive(attempt, maxRetry) == attempt <= maxRetry

\* if (attempt < maxRetry)
shouldRetry(attempt, maxRetry) == attempt < maxRetry

maxRetryOf(i) == IF isDefNum(opts[i].retry) THEN opts[i].retry[1] ELSE DefaultRetry

\* refetch, lines 133-140: the instance after a refetch call that passed the
\* enabled check; queryFn has been called once. origins is the history of the
\* chains the instance started (who called refetch)
refetchStart(qi, t, origin) ==
  [qi EXCEPT !.isLoading = TRUE,
             !.latestFetchId = t,
             !.origins = Append(@, origin)]

\* the chain performFetch(id, realKey(), 0, maxRetry) awaiting queryFn
newChain(i, qi, t, origin) ==
  [inst |-> i, seq |-> Len(qi.origins) + 1, id |-> t, tempKey |-> qi.realKey,
   attempt |-> 0, maxRetry |-> maxRetryOf(i), pc |-> "fetching", wake |-> 0,
   error |-> "none", calls |-> 1, origin |-> origin]

\* res ?? error: only a missing return value falls back on the error
clientErrorArg_nullish(res, error) == IF res # Undef THEN res ELSE error

\* staticData.onError?.(res || error, ...): the error handed to the client
clientErrorArg(res, error) == IF res # Undef /\ res # "" THEN res ELSE error

\* the callbacks handleFetchError invokes, in order
handleFetchErrorCalls(i, seq, res, error) ==
  (IF opts[i].hasOnError
   THEN <<[who |-> "query", inst |-> i, seq |-> seq, arg |-> error]>>
   ELSE <<>>)
  \o
  (IF res # "false" /\ client.hasOnError
   THEN <<[who |-> "client", inst |-> i, seq |-> seq,
           arg |-> clientErrorArg(res, error)]>>
   ELSE <<>>)

\* what opts.onError may return: nothing, false, '' or a message
OnErrorReturns == {Undef, "false", "", "instance error"}

ResOf(i) == IF opts[i].hasOnError THEN OnErrorReturns ELSE {Undef}

\* an error handler that leaves isError alone when opts.onError returned false
handleFetchError_unlessHandled(qi, i, seq, res, error) ==
  [calls |-> handleFetchErrorCalls(i, seq, res, error),
   state |-> IF res = "false" THEN qi ELSE [qi EXCEPT !.isError = TRUE]]

\* an error handler that also drops the data shown
handleFetchError_clearsData(qi, i, seq, res, error) ==
  [calls |-> handleFetchErrorCalls(i, seq, res, error),
   state |-> [qi EXCEPT !.isError = TRUE, !.data = Undef]]

\* handleFetchError(error, tempKey) where opts.onError returned res: the
\* callbacks it invokes and the instance it leaves
handleFetchError(qi, i, seq, res, error) ==
  [calls |-> handleFetchErrorCalls(i, seq, res, error),
   state |-> [qi EXCEPT !.isError = TRUE]]

\* where the rejection of refetch()'s promise ends up: performFetch rethrows
\* the error and refetch has no catch; a manual call hands the promise to its
\* caller, the enabled watch and onKeyChange drop it
rejectionOf(origin) == IF origin = "manual" THEN "caller" ELSE "unhandled"

\* a finally block that leaves isLoading as it is
refetchFinally_never(qi, id) == qi

\* refetch's finally: if (latestFetchId === id) setIsLoading(false)
refetchFinally(qi, id) ==
  IF qi.latestFetchId = id THEN [qi EXCEPT !.isLoading = FALSE] ELSE qi

\* a configuration that always writes the stale time, floored at 5000 ms
configureGc_floor(g, i, keyValue) ==
  LET staleTime == IF isDefNum(opts[i].staleTime) THEN opts[i].staleTime[1] ELSE 0
  IN [g EXCEPT ![keyValue] = <<IF staleTime > 5000 THEN staleTime ELSE 5000>>]

\* a configuration that writes every positive stale time, whatever is in force
configureGc_overwrite(g, i, keyValue) ==
  LET staleTime == IF isDefNum(opts[i].staleTime) THEN opts[i].staleTime[1] ELSE 0
  IN IF staleTime > 0 THEN [g EXCEPT ![keyValue] = <<staleTime>>] ELSE g

\* onKeyChange, lines 169-174: configure garbage collection
configureGc(g, i, keyValue) ==
  LET currentGcTime == IF isDefNum(g[keyValue]) /\ g[keyValue][1] # 0
                       THEN g[keyValue][1] ELSE DefaultGcTime
      staleTime == IF isDefNum(opts[i].staleTime) THEN opts[i].staleTime[1] ELSE 0
  IN IF staleTime > currentGcTime
     THEN [g EXCEPT ![keyValue] = <<staleTime>>]
     ELSE g

(* ------------------------------ timers --------------------------------- *)

Deadlines ==
  {q[i].debounce : i \in {j \in mounted : q[j].debounce # 0}}
  \cup {c.wake : c \in {d \in chains : d.pc = "sleeping"}}

\* the task that ran last: what happened, not what the code made of it
Event(op, i, seq, key, val, res, calls) ==
  [op |-> op, inst |-> i, seq |-> seq, key |-> key, val |-> val, res |-> res,
   calls |-> calls, thrown |-> "none"]

NoEvent(op) == Event(op, "none", 0, "none", "none", "none", 0)

(* ------------------------------- Init ---------------------------------- *)

\* createQuery(opts) at StartTime on an empty store, without initialData or
\* placeholderData: the memos are computed, the realKey watch records the key,
\* the debounced watch is armed, the enabled watch is deferred
newQuery(key, isEnabled) ==
  [realKey |-> key, enabled |-> isEnabled, data |-> Undef,
   isLoading |-> FALSE, isError |-> FALSE, isInitialized |-> FALSE,
   isCleanedUp |-> FALSE, latestFetchId |-> 0, historyKeys |-> {key},
   usedKeys |-> {key}, cacheValue |-> Undef, memoAt |-> StartTime,
   debounce |-> StartTime + DebounceDelay,
   debounceKey |-> key, origins |-> <<>>,
   bornEnabled |-> isEnabled]

unmounted ==
  [realKey |-> "k1", enabled |-> TRUE, data |-> Undef,
   isLoading |-> FALSE, isError |-> FALSE, isInitialized |-> FALSE,
   isCleanedUp |-> FALSE, latestFetchId |-> 0, historyKeys |-> {},
   usedKeys |-> {}, cacheValue |-> Undef, memoAt |-> StartTime, debounce |-> 0,
   debounceKey |-> "k1", origins |-> <<>>,
   bornEnabled |-> TRUE]

noOpts == [staleTime |-> NoNum, retry |-> NoNum, hasOnError |-> FALSE, results |-> {}]

InitWith(M, Enableds, StaleTimes, Retries, OnErrors, Results, Defaults, ClientOnErrors) ==
  /\ now = StartTime
  /\ cache = [k \in Keys |-> NoEntry]
  /\ gcConf = [k \in Keys |-> NoNum]
  /\ client \in [defaultStaleTime : Defaults, hasOnError : ClientOnErrors]
  /\ mounted = M
  /\ \E o \in [M -> [staleTime : StaleTimes, retry : Retries,
                       hasOnError : OnErrors, results : Results]] :
       opts = [i \in Insts |-> IF i \in M THEN o[i] ELSE noOpts]
  /\ \E en \in [M -> Enableds] :
       q = [i \in Insts |-> IF i \in M THEN newQuery("k1", en[i]) ELSE unmounted]
  /\ chains = {}
  /\ cbLog = <<>>
  /\ inputs = 0
  /\ lastEvent = NoEvent("init")

(* ------------------------------ actions -------------------------------- *)

\* time passes; a due timer runs before the clock moves on
Advance(d) ==
  /\ inputs < MaxInputs
  /\ \A dl \in Deadlines : dl > now
  /\ now' = IF Deadlines # {} /\ MinOf(Deadlines) < now + d
            THEN MinOf(Deadlines) ELSE now + d
  /\ inputs' = inputs + 1
  /\ lastEvent' = NoEvent("advance")
  /\ cbLog' = <<>>
  /\ UNCHANGED <<cache, gcConf, client, opts, mounted, q, chains>>

\* the application calls query.refetch()
Refetch(i) ==
  /\ i \in mounted
  /\ inputs < MaxInputs
  /\ inputs' = inputs + 1
  /\ IF ~refetchAllowed(q[i])
     THEN /\ lastEvent' = Event("refetch", i, 0, q[i].realKey, "none", "none", 0)
          /\ UNCHANGED <<q, chains>>
     ELSE /\ q' = [q EXCEPT ![i] = refetchStart(q[i], now, "manual")]
          /\ chains' = chains \cup {newChain(i, q[i], now, "manual")}
          /\ lastEvent' = Event("refetch", i, Len(q[i].origins) + 1,
                                q[i].realKey, "none", "none", 1)
  /\ cbLog' = <<>>
  /\ UNCHANGED <<now, cache, gcConf, client, opts, mounted>>

\* the enabled() accessor changes: the enabled memo and its deferred watch
SetEnabled(i, b) ==
  /\ i \in mounted
  /\ inputs < MaxInputs
  /\ inputs' = inputs + 1
  /\ ~q[i].isCleanedUp
  /\ b # q[i].enabled
  /\ LET qe == [q[i] EXCEPT !.enabled = b] IN
     IF b /\ ~q[i].isInitialized /\ refetchAllowed(qe)
     THEN /\ q' = [q EXCEPT ![i] = refetchStart(qe, now, "enabled")]
          /\ chains' = chains \cup {newChain(i, qe, now, "enabled")}
     ELSE /\ q' = [q EXCEPT ![i] = qe]
          /\ UNCHANGED chains
  /\ lastEvent' = Event("setEnabled", i, 0, q[i].realKey, "none", "none", 0)
  /\ cbLog' = <<>>
  /\ UNCHANGED <<now, cache, gcConf, client, opts, mounted>>

\* the queryKey() accessor changes: realKey and cacheValue are recomputed, the
\* realKey watch records the key, the debounced watch is re-armed and the
\* cacheValue watch runs if the memo changed
SetKey(i, k) ==
  /\ i \in mounted
  /\ inputs < MaxInputs
  /\ inputs' = inputs + 1
  /\ ~q[i].isCleanedUp
  /\ k # q[i].realKey
  /\ LET c1 == getCacheStore(cache, client.defaultStaleTime, k,
                             opts[i].staleTime, now)
         v == cacheValueOf(c1, i, k, now)
         qk == armDebounce([q[i] EXCEPT !.realKey = k,
                                        !.historyKeys = @ \cup {k},
                                        !.usedKeys = @ \cup {k}], k, now)
         qa == recompute(qk, v, now)
         qq == [q EXCEPT ![i] = qa]
     IN /\ cache' = c1
        /\ q' = IF c1 # cache THEN afterCacheWrite(qq, c1, k, now) ELSE qq
  /\ lastEvent' = Event("setKey", i, 0, k, "none", "none", 0)
  /\ cbLog' = <<>>
  /\ UNCHANGED <<now, gcConf, client, opts, mounted, chains>>

\* the owning scope is disposed: onCleanup runs, the instance's memos, watches
\* and debounce timer are disposed with it
Dispose(i) ==
  /\ i \in mounted
  /\ inputs < MaxInputs
  /\ inputs' = inputs + 1
  /\ ~q[i].isCleanedUp
  /\ q' = [q EXCEPT ![i].isCleanedUp = TRUE, ![i].debounce = 0]
  /\ lastEvent' = Event("dispose", i, 0, q[i].realKey, "none", "none", 0)
  /\ cbLog' = <<>>
  /\ UNCHANGED <<now, cache, gcConf, client, opts, mounted, chains>>

\* the application calls query.clearCache()
ClearCache(i) ==
  /\ i \in mounted
  /\ inputs < MaxInputs
  /\ inputs' = inputs + 1
  /\ LET c1 == clearKeys(cache, q[i].historyKeys)
         qq == [q EXCEPT ![i].historyKeys = {}]
     IN /\ cache' = c1
        /\ q' = afterCacheClear(qq, c1, q[i].historyKeys, now)
  /\ lastEvent' = Event("clearCache", i, 0, q[i].realKey, "none", "none", 0)
  /\ cbLog' = <<>>
  /\ UNCHANGED <<now, gcConf, client, opts, mounted, chains>>

\* the debounce timer fires: onKeyChange(keyValue)
DebounceFire(i) ==
  /\ i \in mounted
  /\ q[i].debounce # 0
  /\ q[i].debounce <= now
  /\ LET cachedValue == q[i].cacheValue
         qd == [q[i] EXCEPT !.debounce = 0]
     IN IF isDef(cachedValue)
        THEN /\ q' = [q EXCEPT ![i] = [qd EXCEPT !.data = cachedValue]]
             /\ UNCHANGED chains
        ELSE IF ~refetchAllowed(q[i])
        THEN /\ q' = [q EXCEPT ![i] = qd]
             /\ UNCHANGED chains
        ELSE /\ q' = [q EXCEPT ![i] = refetchStart(qd, now, "key")]
             /\ chains' = chains \cup {newChain(i, qd, now, "key")}
  /\ gcConf' = configureGc(gcConf, i, q[i].debounceKey)
  /\ lastEvent' = Event("keyChange", i, 0, q[i].debounceKey, "none", "none", 0)
  /\ cbLog' = <<>>
  /\ UNCHANGED <<now, cache, client, opts, mounted, inputs>>

\* queryFn resolves with result: performFetch lines 95-110, then refetch's
\* finally
FetchSucceed(c, result) ==
  /\ c \in chains
  /\ c.pc = "fetching"
  /\ result \in opts[c.inst].results
  /\ chains' = chains \ {c}
  /\ LET i == c.inst IN
     IF isStaleFetch(q[i].latestFetchId, c.id)
     THEN UNCHANGED <<q, cache>>
     ELSE LET q1 == IF keyStillCurrent(c.tempKey, q[i].realKey)
                    THEN [q[i] EXCEPT !.data = result, !.isInitialized = TRUE]
                    ELSE q[i]
              c1 == setCache(cache, writeKey(c, q[i]), result, now)
              qq == afterCacheWrite([q EXCEPT ![i] = q1], c1, writeKey(c, q[i]), now)
              q2 == [qq[i] EXCEPT !.isError = FALSE]
          IN /\ cache' = c1
             /\ q' = [qq EXCEPT ![i] = refetchFinally(q2, c.id)]
  /\ lastEvent' = Event("resolve", c.inst, c.seq, c.tempKey, result, "none",
                        c.calls)
  /\ cbLog' = <<>>
  /\ UNCHANGED <<now, gcConf, client, opts, mounted, inputs>>

\* queryFn rejects with error: performFetch lines 111-125, up to the sleep or,
\* when no retry is left, through handleFetchError and refetch's finally
FetchFail(c, error, res) ==
  /\ c \in chains
  /\ c.pc = "fetching"
  /\ LET i == c.inst IN
     IF isStaleFetch(q[i].latestFetchId, c.id)
     THEN /\ res = Undef
          /\ chains' = chains \ {c}
          /\ cbLog' = <<>>
          /\ UNCHANGED q
     ELSE IF shouldRetry(c.attempt, c.maxRetry)
     THEN /\ res = Undef
          /\ chains' = (chains \ {c}) \cup
                       {[c EXCEPT !.pc = "sleeping", !.wake = now + RetryDelay,
                                  !.error = error]}
          /\ cbLog' = <<>>
          /\ UNCHANGED q
     ELSE LET h == handleFetchError(q[i], i, c.seq, res, error) IN
          /\ res \in ResOf(i)
          /\ chains' = chains \ {c}
          /\ cbLog' = h.calls
          /\ q' = [q EXCEPT ![i] = refetchFinally(h.state, c.id)]
  /\ lastEvent' = [Event("reject", c.inst, c.seq, c.tempKey, error, res, c.calls)
                    EXCEPT !.thrown =
                      IF isStaleFetch(q[c.inst].latestFetchId, c.id)
                         \/ shouldRetry(c.attempt, c.maxRetry)
                      THEN "none" ELSE rejectionOf(c.origin)]
  /\ UNCHANGED <<now, cache, gcConf, client, opts, mounted, inputs>>

\* the backoff sleep of a chain ends: lines 118-124
WakeRetry(c, res) ==
  /\ c \in chains
  /\ c.pc = "sleeping"
  /\ c.wake <= now
  /\ LET i == c.inst IN
     IF retryAfterSleep(q[i])
     THEN /\ res = Undef
          /\ chains' = (chains \ {c}) \cup
                       {[c EXCEPT !.pc = "fetching", !.wake = 0,
                                  !.attempt = @ + 1, !.calls = @ + 1]}
          /\ cbLog' = <<>>
          /\ UNCHANGED q
     ELSE LET h == handleFetchError(q[i], i, c.seq, res, c.error) IN
          /\ res \in ResOf(i)
          /\ chains' = chains \ {c}
          /\ cbLog' = h.calls
          /\ q' = [q EXCEPT ![i] = refetchFinally(h.state, c.id)]
  /\ lastEvent' = [Event("wake", c.inst, c.seq, c.tempKey, c.error, res, c.calls)
                    EXCEPT !.thrown =
                      IF retryAfterSleep(q[c.inst]) THEN "none"
                      ELSE rejectionOf(c.origin)]
  /\ UNCHANGED <<now, cache, gcConf, client, opts, mounted, inputs>>

\* one instance, created enabled or not, with or without a stale time
Init ==
  InitWith({"q1"}, BOOLEAN, {NoNum, <<50>>}, {<<1>>}, {TRUE}, {{"d1"}}, {0}, {TRUE})

\* one instance under each kind of retry option
InitRetry ==
  InitWith({"q1"}, {TRUE}, {NoNum}, {NoNum, <<-1>>, <<0>>, <<1>>}, {FALSE},
           {{"d1"}}, {0}, {FALSE})

\* one instance with and without onError, client with and without onError
InitError ==
  InitWith({"q1"}, {TRUE}, {NoNum}, {<<1>>}, BOOLEAN, {{"d1"}}, {0}, BOOLEAN)

\* one instance whose stale time is its own or the client's default
InitStale ==
  InitWith({"q1"}, BOOLEAN, {NoNum, <<50>>}, {<<1>>}, {FALSE}, {{"d1"}}, {1000},
           {FALSE})

\* one instance whose stale time is absent, below or above the default GC time
InitLongStale ==
  InitWith({"q1"}, {TRUE}, {NoNum, <<6000>>, <<400000>>}, {<<1>>}, {FALSE},
           {{"d1"}}, {0}, {FALSE})

\* two instances on one client, q1 without a stale time, q2 with one
InitShared ==
  /\ InitWith({"q1", "q2"}, {TRUE}, {NoNum, <<50>>}, {<<1>>}, {FALSE}, {Vals},
              {0}, {FALSE})
  /\ opts["q1"].staleTime = NoNum
  /\ opts["q2"].staleTime # NoNum

\* two enabled instances on one client, both with a stale time: q1 caches for
\* longer than the default GC duration and is created on either key, q2 for
\* less and on k1
InitPair ==
  /\ now = StartTime
  /\ cache = [k \in Keys |-> NoEntry]
  /\ gcConf = [k \in Keys |-> NoNum]
  /\ client = [defaultStaleTime |-> 0, hasOnError |-> FALSE]
  /\ mounted = {"q1", "q2"}
  /\ opts = [i \in Insts |->
               [staleTime |-> IF i = "q1" THEN <<400000>> ELSE <<6000>>,
                retry |-> <<1>>, hasOnError |-> FALSE, results |-> {"d1"}]]
  /\ \E k \in Keys :
       q = [i \in Insts |-> newQuery(IF i = "q1" THEN k ELSE "k1", TRUE)]
  /\ chains = {}
  /\ cbLog = <<>>
  /\ inputs = 0
  /\ lastEvent = NoEvent("init")

\* setCache's timestamp default: timestamp ?? Date.now()
timestampOr_now(timestamp, t) == t

timestampOr(timestamp, t) == IF isDefNum(timestamp) THEN timestamp[1] ELSE t

\* the store after createQuery's initialData block wrongly fed with the
\* placeholder as well
createCache_placeholder(c, key, o, t) ==
  IF isDef(o.initialData)
  THEN setCache(c, key, o.initialData, timestampOr(o.initialDataUpdatedAt, t))
  ELSE IF isDef(o.placeholderData) THEN setCache(c, key, o.placeholderData, t)
  ELSE c

\* the store after createQuery's initialData block
createCache(c, key, o, t) ==
  IF isDef(o.initialData)
  THEN setCache(c, key, o.initialData, timestampOr(o.initialDataUpdatedAt, t))
  ELSE c

\* the instance as createQuery leaves it for options o: the data signal starts
\* at placeholderData, initialData overwrites it and marks the instance
\* initialized, and the cacheValue memo is evaluated on the seeded store c
createdQuery(i, key, isEnabled, o, c, t) ==
  LET base == newQuery(key, isEnabled)
      seeded == IF isDef(o.initialData)
                THEN [base EXCEPT !.data = o.initialData, !.isInitialized = TRUE]
                ELSE [base EXCEPT !.data = o.placeholderData]
  IN [seeded EXCEPT !.cacheValue = cacheValueOf(c, i, key, t)]

\* the option combinations instances are created with: initial data with or
\* without its timestamp, or placeholder data alone
SeedChoices ==
  {[initialData |-> "init", initialDataUpdatedAt |-> NoNum, placeholderData |-> Undef],
   [initialData |-> "init", initialDataUpdatedAt |-> <<0>>, placeholderData |-> Undef],
   [initialData |-> Undef, initialDataUpdatedAt |-> NoNum, placeholderData |-> "ph"]}

\* one enabled instance created with initial or placeholder data
InitSeeded ==
  /\ now = StartTime
  /\ gcConf = [k \in Keys |-> NoNum]
  /\ client = [defaultStaleTime |-> 0, hasOnError |-> FALSE]
  /\ mounted = {"q1"}
  /\ \E st \in {NoNum, <<50>>}, seed \in SeedChoices :
       opts = [i \in Insts |->
                 [staleTime |-> IF i = "q1" THEN st ELSE NoNum,
                  retry |-> <<1>>, hasOnError |-> FALSE,
                  results |-> IF i = "q1" THEN {"d1"} ELSE {},
                  initialData |-> IF i = "q1" THEN seed.initialData ELSE Undef,
                  initialDataUpdatedAt |-> IF i = "q1" THEN seed.initialDataUpdatedAt ELSE NoNum,
                  placeholderData |-> IF i = "q1" THEN seed.placeholderData ELSE Undef]]
  /\ cache = createCache([k \in Keys |-> NoEntry], "k1", opts["q1"], now)
  /\ q = [i \in Insts |->
            IF i = "q1" THEN createdQuery(i, "k1", TRUE, opts[i], cache, now)
            ELSE unmounted]
  /\ chains = {}
  /\ cbLog = <<>>
  /\ inputs = 0
  /\ lastEvent = NoEvent("init")

(* ------------------------- client cache methods ------------------------ *)

\* values handed to setCache: strings, null, and the two that JSON.stringify
\* does not round-trip
CacheVals == Vals \cup {"", Null, NaN, Undef}

\* timestamps handed to setCache and stale times handed to getCache
Timestamps == {NoNum, <<0>>, <<2>>}
StaleTimeArgs == {NoNum, <<-1>>, <<0>>, <<1>>}

\* a client with no query instance
InitClient ==
  /\ now = StartTime
  /\ cache = [k \in Keys |-> NoEntry]
  /\ gcConf = [k \in Keys |-> NoNum]
  /\ client \in [defaultStaleTime : {0, 1000}, hasOnError : {FALSE}]
  /\ mounted = {}
  /\ opts = [i \in Insts |-> noOpts]
  /\ q = [i \in Insts |-> unmounted]
  /\ chains = {}
  /\ cbLog = <<>>
  /\ inputs = 0
  /\ lastEvent = NoEvent("init")

\* actions.setCache(key, value, timestamp)
ClientSetCache(key, value, timestamp) ==
  /\ inputs < MaxInputs
  /\ inputs' = inputs + 1
  /\ cache' = setCache(cache, key, value, timestampOr(timestamp, now))
  /\ lastEvent' = [Event("setCache", "none", 0, key, value, "none", 0)
                    EXCEPT !.res = timestamp]
  /\ UNCHANGED <<now, gcConf, client, opts, mounted, q, chains, cbLog>>

\* actions.getCache(key, staleTime): val is the stale time asked for, res the
\* value returned
ClientGetCache(key, staleTime) ==
  /\ inputs < MaxInputs
  /\ inputs' = inputs + 1
  /\ cache' = getCacheStore(cache, client.defaultStaleTime, key, staleTime, now)
  /\ lastEvent' = [Event("getCache", "none", 0, key, "none", "none", 0)
                    EXCEPT !.val = staleTime,
                           !.res = getCache(cache, client.defaultStaleTime,
                                            key, staleTime, now)]
  /\ UNCHANGED <<now, gcConf, client, opts, mounted, q, chains, cbLog>>

\* texts written into an entry behind setCache's back: not JSON, or empty
CorruptTexts == {<<"text", "invalid json{">>, NoText}

\* actions.setState('cache', key, {jsonData: text, timestamp: Date.now()})
ClientCorrupt(key, text) ==
  /\ inputs < MaxInputs
  /\ inputs' = inputs + 1
  /\ cache' = [cache EXCEPT ![key] = [present |-> TRUE, jsonData |-> text,
                                      timestamp |-> now, written |-> Undef]]
  /\ lastEvent' = Event("corrupt", "none", 0, key, "none", "none", 0)
  /\ UNCHANGED <<now, gcConf, client, opts, mounted, q, chains, cbLog>>

\* actions.removeCache(key)
ClientRemoveCache(key) ==
  /\ inputs < MaxInputs
  /\ inputs' = inputs + 1
  /\ cache' = removeCache(cache, key)
  /\ lastEvent' = Event("removeCache", "none", 0, key, "none", "none", 0)
  /\ UNCHANGED <<now, gcConf, client, opts, mounted, q, chains, cbLog>>

NextClient ==
  \/ \E d \in Jumps : Advance(d)
  \/ \E k \in Keys, v \in CacheVals, t \in Timestamps : ClientSetCache(k, v, t)
  \/ \E k \in Keys, s \in StaleTimeArgs : ClientGetCache(k, s)
  \/ \E k \in Keys : ClientRemoveCache(k)
  \/ \E k \in Keys, text \in CorruptTexts : ClientCorrupt(k, text)

(* ------------------------- garbage collection -------------------------- *)

\* a sweep that only knows per-key durations
gcTimeOf_noDefault(g, key) == IF isDefNum(g[key]) THEN g[key][1] ELSE 0

\* gc: const gcTime = this.state.gcConf[key] || this.nowrapData.gcTime
gcTimeOf(g, key) ==
  IF isDefNum(g[key]) /\ g[key][1] # 0 THEN g[key][1] ELSE DefaultGcTime

\* gc() at t: the loop runs over a snapshot of the entries and removes those
\* older than their gcTime
gc(c, g, t) ==
  [k \in Keys |->
     IF c[k].present /\ gcTimeOf(g, k) > 0 /\ t - c[k].timestamp > gcTimeOf(g, k)
     THEN NoEntry ELSE c[k]]

\* how far the scheduler is followed, in sweeps
MaxTicks == 7

\* moments between two sweeps, durations written to gcConf, and timestamps
\* handed to setCache
GcJumps == {5000, 30000}
GcTimes == {0, 5000, 90000}
GcTimestamps == {NoNum, <<0>>}

\* createQueryClient(): an empty store and the sweep timer armed
InitGc ==
  /\ now = StartTime
  /\ cache = [k \in Keys |-> NoEntry]
  /\ gcConf = [k \in Keys |-> NoNum]
  /\ client = [defaultStaleTime |-> 0, hasOnError |-> FALSE,
               gcAt |-> StartTime + GcInterval]
  /\ mounted = {}
  /\ opts = [i \in Insts |-> noOpts]
  /\ q = [i \in Insts |-> unmounted]
  /\ chains = {}
  /\ cbLog = <<>>
  /\ inputs = 0
  /\ lastEvent = NoEvent("init")

\* time passes up to a moment before the next sweep
AdvanceGc(d) ==
  /\ inputs < MaxInputs
  /\ now + d < client.gcAt
  /\ now' = now + d
  /\ inputs' = inputs + 1
  /\ lastEvent' = NoEvent("advance")
  /\ UNCHANGED <<cache, gcConf, client, opts, mounted, q, chains, cbLog>>

\* time passes until the interval timer is due
AwaitTick ==
  /\ now < client.gcAt
  /\ client.gcAt <= StartTime + MaxTicks * GcInterval
  /\ now' = client.gcAt
  /\ lastEvent' = NoEvent("advance")
  /\ UNCHANGED <<cache, gcConf, client, opts, mounted, q, chains, cbLog, inputs>>

\* setInterval(() => actions.gc(), staticData.gcInterval) fires
GcTick ==
  /\ client.gcAt <= now
  /\ cache' = gc(cache, gcConf, now)
  /\ client' = [client EXCEPT !.gcAt = @ + GcInterval]
  /\ lastEvent' = NoEvent("gcTick")
  /\ UNCHANGED <<now, gcConf, opts, mounted, q, chains, cbLog, inputs>>

\* the application calls actions.gc()
ClientGc ==
  /\ inputs < MaxInputs
  /\ client.gcAt > now
  /\ inputs' = inputs + 1
  /\ cache' = gc(cache, gcConf, now)
  /\ lastEvent' = NoEvent("gc")
  /\ UNCHANGED <<now, gcConf, client, opts, mounted, q, chains, cbLog>>

\* actions.setState('gcConf', key, gcTime)
ClientSetGcConf(key, gcTime) ==
  /\ inputs < MaxInputs
  /\ client.gcAt > now
  /\ inputs' = inputs + 1
  /\ gcConf' = [gcConf EXCEPT ![key] = <<gcTime>>]
  /\ lastEvent' = Event("setGcConf", "none", 0, key, "none", "none", 0)
  /\ UNCHANGED <<now, cache, client, opts, mounted, q, chains, cbLog>>

NextGc ==
  \/ \E d \in GcJumps : AdvanceGc(d)
  \/ AwaitTick
  \/ GcTick
  \/ ClientGc
  \/ \E k \in Keys, t \in GcTimestamps : client.gcAt > now /\ ClientSetCache(k, "d1", t)
  \/ \E k \in Keys, d \in GcTimes : ClientSetGcConf(k, d)
  \/ \E k \in Keys : client.gcAt > now /\ ClientRemoveCache(k)

(* --------------------------- key normalizer ---------------------------- *)

\* the values arrays of keys are built from
KeyElems == {"a", "b", "ab", Null, Undef}

\* parseKey: `${key}` as UTF-16 code units
parseKey(key) ==
  CASE key = "a" -> <<97>>
    [] key = "b" -> <<98>>
    [] key = "ab" -> <<97, 98>>
    [] key = Null -> <<110, 117, 108, 108>>
    [] key = Undef -> <<117, 110, 100, 101, 102, 105, 110, 101, 100>>

\* s sorts before t as strings: the first differing code unit decides, a
\* proper prefix comes first
RECURSIVE stringLess(_, _)
stringLess(s, t) ==
  IF t = <<>> THEN FALSE
  ELSE IF s = <<>> THEN TRUE
  ELSE IF Head(s) # Head(t) THEN Head(s) < Head(t)
  ELSE stringLess(Tail(s), Tail(t))

\* the default comparison of Array.prototype.sort: undefined goes last, all
\* other values are compared by their string form
sortsBefore(x, y) ==
  IF x = Undef THEN FALSE
  ELSE IF y = Undef THEN TRUE
  ELSE stringLess(parseKey(x), parseKey(y))

RECURSIVE insertSorted(_, _)
insertSorted(x, elems) ==
  IF elems = <<>> THEN <<x>>
  ELSE IF sortsBefore(x, Head(elems)) THEN <<x>> \o elems
  ELSE <<Head(elems)>> \o insertSorted(x, Tail(elems))

\* a normalizer that keeps the order of the elements
sort_unsorted(elems) == elems

\* Array.prototype.sort()
RECURSIVE sort(_)
sort(elems) ==
  IF elems = <<>> THEN <<>>
  ELSE insertSorted(Head(elems), sort(Tail(elems)))

\* an item of a key array: a single value, or an array of values
Single(x) == [nested |-> FALSE, elems |-> <<x>>]
Nested(xs) == [nested |-> TRUE, elems |-> xs]

\* a key: an array of items, or a single value
KeyArray(items) == [array |-> TRUE, items |-> items]
KeyValue(x) == [array |-> FALSE, items |-> <<Single(x)>>]

\* Array.prototype.flat(): nested arrays are spliced in, one level deep
RECURSIVE flat(_)
flat(items) ==
  IF items = <<>> THEN <<>> ELSE Head(items).elems \o flat(Tail(items))

RECURSIVE concatKeys(_)
concatKeys(elems) ==
  IF elems = <<>> THEN <<>> ELSE parseKey(Head(elems)) \o concatKeys(Tail(elems))

\* getRealQueryKey(key)
getRealQueryKey(key) ==
  IF key.array THEN concatKeys(sort(flat(key.items)))
  ELSE parseKey(key.items[1].elems[1])

\* length of the flat key arrays explored
MaxKeyLen == 3

\* arrays of single values up to MaxKeyLen
FlatKeys ==
  {KeyArray([n \in 1..Len(xs) |-> Single(xs[n])]) :
     xs \in UNION {[1..n -> KeyElems] : n \in 0..MaxKeyLen}}

\* arrays holding one nested pair, alone or next to a single value
NestedKeys ==
  {KeyArray(<<Nested(<<x, y>>)>>) : x \in KeyElems, y \in KeyElems}
  \cup {KeyArray(<<Nested(<<p[1], p[2]>>), Single(z)>>) :
          p \in KeyElems \X KeyElems, z \in KeyElems}
  \cup {KeyArray(<<Single(z), Nested(<<p[1], p[2]>>)>>) :
          p \in KeyElems \X KeyElems, z \in KeyElems}

QueryKeys == FlatKeys \cup NestedKeys \cup {KeyValue(x) : x \in KeyElems}

\* two keys to be normalized: any key, and a flat array to compare it with
InitKeys ==
  /\ now = StartTime
  /\ cache = [k \in Keys |-> NoEntry]
  /\ gcConf = [k \in Keys |-> NoNum]
  /\ client = [defaultStaleTime |-> 0, hasOnError |-> FALSE]
  /\ mounted = {}
  /\ opts = [i \in Insts |-> noOpts]
  /\ q = [i \in Insts |-> unmounted]
  /\ chains = {}
  /\ cbLog = <<>>
  /\ inputs = 0
  /\ \E a \in QueryKeys, b \in FlatKeys :
       lastEvent = [NoEvent("init") EXCEPT !.key = a, !.val = b]

\* both keys are normalized: res holds the two canonical keys
GetRealQueryKey ==
  /\ lastEvent.op = "init"
  /\ lastEvent' = [lastEvent EXCEPT
                     !.op = "getRealQueryKey",
                     !.res = <<getRealQueryKey(lastEvent.key),
                               getRealQueryKey(lastEvent.val)>>]
  /\ UNCHANGED <<now, cache, gcConf, client, opts, mounted, q, chains, cbLog,
                 inputs>>

NextKeys == GetRealQueryKey

Next ==
  \/ \E d \in Jumps : Advance(d)
  \/ \E i \in Insts : Refetch(i)
  \/ \E i \in Insts, b \in BOOLEAN : SetEnabled(i, b)
  \/ \E i \in Insts, k \in Keys : SetKey(i, k)
  \/ \E i \in Insts : Dispose(i)
  \/ \E i \in Insts : ClearCache(i)
  \/ \E i \in Insts : DebounceFire(i)
  \/ \E c \in chains, result \in Vals : FetchSucceed(c, result)
  \/ \E c \in chains, error \in Errs, res \in OnErrorReturns : FetchFail(c, error, res)
  \/ \E c \in chains, res \in OnErrorReturns : WakeRetry(c, res)

\* the event loop runs the next pending timer: the debounce timeout or the
\* sleep of a backoff, whichever is due first
AwaitTimer ==
  /\ Deadlines # {}
  /\ \A dl \in Deadlines : dl > now
  /\ now' = MinOf(Deadlines)
  /\ lastEvent' = NoEvent("advance")
  /\ cbLog' = <<>>
  /\ UNCHANGED <<cache, gcConf, client, opts, mounted, q, chains, inputs>>

\* a pending call of queryFn settles, one way or the other
Settle ==
  \/ \E c \in chains, result \in Vals : FetchSucceed(c, result)
  \/ \E c \in chains, error \in Errs, res \in OnErrorReturns : FetchFail(c, error, res)

\* a pending call of queryFn resolves
Resolve == \E c \in chains, result \in Vals : FetchSucceed(c, result)

\* a due timer callback runs: the debounced handler or the end of a sleep
RunTimer ==
  \/ \E i \in Insts : DebounceFire(i)
  \/ \E c \in chains, res \in OnErrorReturns : WakeRetry(c, res)

\* the application calls between which the fair behaviours run to completion:
\* one call fewer than in Next, each followed by any number of timer and
\* fetch steps
LiveCall ==
  /\ inputs < MaxInputs - 1
  /\ \/ \E i \in Insts : Refetch(i)
     \/ \E i \in Insts : Dispose(i)

NextLive == LiveCall \/ RunTimer \/ Settle \/ AwaitTimer

\* timers expire, due callbacks run and every call of queryFn settles
Fairness ==
  /\ WF_vars(AwaitTimer)
  /\ WF_vars(RunTimer)
  /\ WF_vars(Settle)

\* clock advances that let the debounce expire or an entry outlive the
\* default GC duration
SweepJumps == {DebounceDelay, DefaultGcTime + DebounceDelay}

\* actions.gc() on a client with query instances, called by the interval timer
\* or by the application; the cacheValue memos see the removals
Sweep ==
  /\ inputs < MaxInputs
  /\ inputs' = inputs + 1
  /\ LET c1 == gc(cache, gcConf, now)
         removed == {k \in Keys : cache[k].present /\ ~c1[k].present}
     IN /\ cache' = c1
        /\ q' = afterCacheClear(q, c1, removed, now)
  /\ lastEvent' = NoEvent("gc")
  /\ cbLog' = <<>>
  /\ UNCHANGED <<now, gcConf, client, opts, mounted, chains>>

\* queries whose fetches resolve, on a client that is swept
NextSwept ==
  \/ \E d \in SweepJumps : Advance(d)
  \/ \E i \in Insts : Refetch(i)
  \/ \E i \in Insts, k \in Keys : SetKey(i, k)
  \/ \E i \in Insts : ClearCache(i)
  \/ \E i \in Insts : DebounceFire(i)
  \/ Resolve
  \/ Sweep

\* the application toggles enabled() and changes queryKey()
KeyCall ==
  \/ \E i \in Insts, b \in BOOLEAN : SetEnabled(i, b)
  \/ \E i \in Insts, k \in Keys : SetKey(i, k)

\* a queryFn that never rejects
NextSucceeding ==
  \/ KeyCall
  \/ \E i \in Insts : DebounceFire(i)
  \/ Resolve
  \/ AwaitTimer

\* timers expire, the debounced handler runs and every call of queryFn resolves
FairnessSucceeding ==
  /\ WF_vars(AwaitTimer)
  /\ WF_vars(\E i \in Insts : DebounceFire(i))
  /\ WF_vars(Resolve)

Spec == Init /\ [][Next]_vars

SpecSucceeding == Init /\ [][NextSucceeding]_vars /\ FairnessSucceeding

\* one enabled instance with the default stale time and one retry
InitLive == InitWith({"q1"}, {TRUE}, {NoNum}, {<<1>>}, {FALSE}, {{"d1"}}, {0}, {FALSE})

SpecLive == InitLive /\ [][NextLive]_vars /\ Fairness

SpecRetry == InitRetry /\ [][Next]_vars

SpecError == InitError /\ [][Next]_vars

SpecStale == InitStale /\ [][Next]_vars

SpecShared == InitShared /\ [][Next]_vars

SpecLongStale == InitLongStale /\ [][Next]_vars

SpecPair == InitPair /\ [][Next]_vars

SpecSwept == InitPair /\ [][NextSwept]_vars

SpecSeeded == InitSeeded /\ [][Next]_vars

SpecClient == InitClient /\ [][NextClient]_vars

SpecGc == InitGc /\ [][NextGc]_vars

SpecKeys == InitKeys /\ [][NextKeys]_vars

(* ----------------------------- properties ------------------------------ *)

\* the step ran the continuation of chain c: queryFn settled or its sleep ended
Ran(c, ops) ==
  /\ lastEvent'.op \in ops
  /\ lastEvent'.inst = c.inst
  /\ lastEvent'.seq = c.seq

\* chain c was started by the most recent refetch of its instance
IsLatest(c) == c.seq = Len(q[c.inst].origins)

\* C1: a fetch chain that is not the most recently started one of its instance
\* changes none of the instance's data, isError and isLoading, whether it
\* succeeds, fails or ends its backoff
C1_OnlyLatestFetchChangesState ==
  [][\A c \in chains :
       Ran(c, {"resolve", "reject", "wake"}) /\ ~IsLatest(c)
       => /\ q'[c.inst].data = q[c.inst].data
          /\ q'[c.inst].isError = q[c.inst].isError
          /\ q'[c.inst].isLoading = q[c.inst].isLoading]_vars

\* the entry setCache(key, value) leaves at time t
EntryOf(value, t) ==
  [present |-> TRUE, jsonData |-> <<"json", value>>, timestamp |-> t,
   written |-> value]

\* C2 (as stated): every fetch that completes successfully writes its result
\* into the cache under the key it was started with, superseded or not
C2_EverySuccessIsCached ==
  [][\A c \in chains :
       Ran(c, {"resolve"})
       => cache'[c.tempKey] = EntryOf(lastEvent'.val, now)]_vars

\* C2 (amended): a fetch that completes successfully writes its result into the
\* cache under the key it was started with if and only if its generation id is
\* still the latest id of its instance; otherwise the store is left as it was
C2_SuccessIsCachedIffCurrent ==
  [][\A c \in chains :
       Ran(c, {"resolve"})
       => IF q[c.inst].latestFetchId = c.id
          THEN /\ cache'[c.tempKey] = EntryOf(lastEvent'.val, now)
               /\ \A k \in Keys \ {c.tempKey} : cache'[k] = cache[k]
          ELSE cache' = cache]_vars

\* a superseded fetch has resolved and nothing is cached under its key
C2_SupersededSuccessDropped ==
  /\ lastEvent.op = "resolve"
  /\ lastEvent.seq < Len(q[lastEvent.inst].origins)
  /\ ~cache[lastEvent.key].present

\* the retry option of instance i as the application gave it
RetryOf(i) == IF opts[i].retry = NoNum THEN 2 ELSE opts[i].retry[1]

\* retry + 1, and one call when retry <= 0
MaxCalls(i) == IF RetryOf(i) <= 0 THEN 1 ELSE RetryOf(i) + 1

\* chain c is neither superseded nor disposed
Live(c) == IsLatest(c) /\ ~q[c.inst].isCleanedUp

\* the step ended chain c
Ended(c) == \A d \in chains' : d.inst # c.inst \/ d.seq # c.seq

\* C3 (as stated): a chain that is neither superseded nor disposed calls the
\* fetch function at most retry+1 times, exactly retry+1 times when every
\* attempt fails, and k+1 times when attempt k is the first to succeed, after
\* which data is the success value and isError is false
C3_RetryCountAndOutcome ==
  [][\A c \in chains :
       Live(c)
       => /\ c.calls <= MaxCalls(c.inst)
          /\ Ran(c, {"reject"}) /\ Ended(c) => c.calls = MaxCalls(c.inst)
          /\ Ran(c, {"reject"}) /\ ~Ended(c) => c.calls < MaxCalls(c.inst)
          /\ Ran(c, {"resolve"})
             => /\ lastEvent'.calls = c.attempt + 1
                /\ q'[c.inst].data = lastEvent'.val
                /\ ~q'[c.inst].isError]_vars

\* C3 (amended): the same counts; after the success isError is false, and data
\* is the success value provided the instance's key is still the key the chain
\* was started with
C3_RetryCountAndOutcomeSameKey ==
  [][\A c \in chains :
       Live(c)
       => /\ c.calls <= MaxCalls(c.inst)
          /\ Ran(c, {"reject"}) /\ Ended(c) => c.calls = MaxCalls(c.inst)
          /\ Ran(c, {"reject"}) /\ ~Ended(c) => c.calls < MaxCalls(c.inst)
          /\ Ran(c, {"resolve"})
             => /\ lastEvent'.calls = c.attempt + 1
                /\ c.tempKey = q[c.inst].realKey
                   => q'[c.inst].data = lastEvent'.val
                /\ ~q'[c.inst].isError]_vars

\* a chain with the default retry succeeded on its third call and is shown
C3_SucceededOnLastRetry ==
  /\ lastEvent.op = "resolve"
  /\ lastEvent.calls = 3
  /\ lastEvent.seq = Len(q[lastEvent.inst].origins)
  /\ ~q[lastEvent.inst].isCleanedUp
  /\ q[lastEvent.inst].data = lastEvent.val
  /\ ~q[lastEvent.inst].isError

\* C4: isError is set when a non-superseded chain fails with no retry left,
\* whatever opts.onError returns; a failed attempt that will be retried leaves
\* isError as it was; a success of the latest chain clears it
C4_IsErrorFollowsExhaustion ==
  [][\A c \in chains :
       /\ Ran(c, {"reject"}) /\ IsLatest(c) /\ c.calls >= MaxCalls(c.inst)
          => q'[c.inst].isError
       /\ Ran(c, {"reject"}) /\ c.calls < MaxCalls(c.inst)
          => q'[c.inst].isError = q[c.inst].isError
       /\ Ran(c, {"resolve"}) /\ IsLatest(c)
          => ~q'[c.inst].isError]_vars

\* retries were exhausted, opts.onError returned false and isError is set
C4_ErrorAfterHandledFailure ==
  /\ lastEvent.op = "reject"
  /\ lastEvent.res = "false"
  /\ lastEvent.seq = Len(q[lastEvent.inst].origins)
  /\ q[lastEvent.inst].isError

\* C5 (as stated): error callbacks run only in a step in which a chain that is
\* not superseded fails with no retry left, and then each of them at most once
C5_CallbacksOnlyOnExhaustion ==
  [][cbLog' # <<>>
     => /\ \E c \in chains :
             /\ Ran(c, {"reject"})
             /\ IsLatest(c)
             /\ c.calls >= MaxCalls(c.inst)
        /\ \A m, n \in 1..Len(cbLog') : cbLog'[m].who = cbLog'[n].who => m = n]_vars

\* the callbacks the claim expects when a chain of instance i is exhausted with
\* error and opts.onError returned res; passed says which returns reach the client
ExpectedCalls(i, seq, res, error, passed) ==
  (IF opts[i].hasOnError
   THEN <<[who |-> "query", inst |-> i, seq |-> seq, arg |-> error]>>
   ELSE <<>>)
  \o
  (IF client.hasOnError /\ (~opts[i].hasOnError \/ res # "false")
   THEN <<[who |-> "client", inst |-> i, seq |-> seq,
           arg |-> IF res \in passed THEN res ELSE error]>>
   ELSE <<>>)

\* chain c fails in this step with no retry left and is not superseded
Exhausts(c) ==
  /\ Ran(c, {"reject"})
  /\ q[c.inst].latestFetchId = c.id
  /\ c.calls >= MaxCalls(c.inst)

\* C6 (as stated): on exhaustion opts.onError runs before the client's onError;
\* the client's runs iff opts.onError is absent or returned something other
\* than false; it receives the returned value when that is a string, the
\* original error otherwise
C6_ClientGetsReturnedString ==
  [][\A c \in chains :
       Exhausts(c)
       => cbLog' = ExpectedCalls(c.inst, c.seq, lastEvent'.res, lastEvent'.val,
                                 {"", "instance error"})]_vars

\* C6 (amended): the same order and condition; the client's onError receives
\* the returned value when that is a non-empty string, the original error
\* otherwise, also when opts.onError returned the empty string
C6_ClientGetsReturnedNonEmptyString ==
  [][\A c \in chains :
       Exhausts(c)
       => cbLog' = ExpectedCalls(c.inst, c.seq, lastEvent'.res, lastEvent'.val,
                                 {"instance error"})]_vars

\* opts.onError returned '' and the client's onError got the original error
C6_EmptyStringFallsBack ==
  /\ lastEvent.op = "reject"
  /\ lastEvent.res = ""
  /\ Len(cbLog) = 2
  /\ cbLog[1].who = "query"
  /\ cbLog[2].who = "client"
  /\ cbLog[2].arg = lastEvent.val

\* C7: refetch() on an instance whose enabled condition is false calls no fetch
\* function and leaves the instance (data, isLoading, isError, latest id), the
\* chains in flight and the store as they were
C7_RefetchWhileDisabledIsNoOp ==
  [][\A i \in mounted :
       lastEvent'.op = "refetch" /\ lastEvent'.inst = i /\ ~q[i].enabled
       => /\ lastEvent'.calls = 0
          /\ q' = q
          /\ chains' = chains
          /\ cache' = cache
          /\ gcConf' = gcConf]_vars

\* refetch() was called on a disabled instance
C7_RefetchedWhileDisabled ==
  /\ lastEvent.op = "refetch"
  /\ lastEvent.calls = 0
  /\ ~q[lastEvent.inst].enabled

\* how often x occurs in sequence s
CountOf(s, x) == Cardinality({n \in 1..Len(s) : s[n] = x})

\* C8 (as stated): an instance created disabled starts no fetch before it is
\* enabled, and its first enabling starts exactly one fetch (no manual
\* refetch, no key change, no second enabling), wherever the enabling falls
\* relative to the debounce window
C8_ExactlyOneFetchOnFirstEnable ==
  \A i \in mounted :
    ~q[i].bornEnabled /\ q[i].historyKeys = {"k1"}
    /\ CountOf(q[i].origins, "manual") = 0
    => /\ ~q[i].enabled /\ CountOf(q[i].origins, "enabled") = 0
          => Len(q[i].origins) = 0
       /\ CountOf(q[i].origins, "enabled") = 1 => Len(q[i].origins) = 1

\* the value getCache(key, opts.staleTime) yields for instance i at time t
FreshValue(i, key, t) ==
  LET st == IF opts[i].staleTime = NoNum THEN client.defaultStaleTime
            ELSE opts[i].staleTime[1]
  IN IF st = 0 \/ ~cache[key].present THEN Undef
     ELSE IF st > 0 /\ t - cache[key].timestamp > st THEN Undef
     ELSE cache[key].jsonData[2]

\* the step started one chain, for instance i
StartsFetch(i) ==
  /\ Cardinality(chains' \ chains) = 1
  /\ \A c \in chains' \ chains : c.inst = i /\ c.calls = 1
  /\ chains \subseteq chains'

\* C10 (as stated): when the debounced key-change handler runs, a cache entry
\* of the key that is fresh at that moment under the instance's stale time
\* (the client default when it gives none) is adopted without a fetch;
\* otherwise, and only otherwise, a fetch is started
C10_KeyChangeAdoptsFreshElseFetches ==
  [][\A i \in mounted :
       lastEvent'.op = "keyChange" /\ lastEvent'.inst = i
       => LET v == FreshValue(i, lastEvent'.key, now) IN
          IF v # Undef
          THEN q'[i].data = v /\ chains' = chains
          ELSE StartsFetch(i)]_vars

\* C10 (amended): the handler reads the instance's cached view of the key, the
\* entry as it was fresh or not when the key or the entry last changed; a value
\* there is adopted without a fetch; otherwise, and only otherwise, refetch is
\* called, which starts a fetch iff the instance is enabled
C10_KeyChangeAdoptsViewElseRefetches ==
  [][\A i \in mounted :
       lastEvent'.op = "keyChange" /\ lastEvent'.inst = i
       => LET v == FreshValue(i, lastEvent'.key, q[i].memoAt) IN
          IF v # Undef
          THEN q'[i].data = v /\ chains' = chains
          ELSE IF q[i].enabled THEN StartsFetch(i) ELSE chains' = chains]_vars

\* the handler adopted an entry that is fresh under the client default
C10_AdoptedUnderClientDefault ==
  /\ lastEvent.op = "keyChange"
  /\ opts[lastEvent.inst].staleTime = NoNum
  /\ cache[lastEvent.key].present
  /\ q[lastEvent.inst].data = cache[lastEvent.key].jsonData[2]
  /\ CountOf(q[lastEvent.inst].origins, "key") = 0

\* instance j starts and continues no fetch in the step
NoFetchCallBy(j) ==
  {d \in chains' : d.inst = j} = {d \in chains : d.inst = j}

\* instance j is live, on key, and neither loading nor in error
Idle(j, key) ==
  /\ ~q[j].isCleanedUp
  /\ q[j].realKey = key
  /\ ~q[j].isLoading
  /\ ~q[j].isError

\* C9 (as stated): when a fetch of one instance writes v under key k, every
\* other live instance on k that is neither loading nor in error has v as its
\* data afterwards and calls no fetch function
C9_IdleInstancesAdoptWrittenValue ==
  [][\A c \in chains :
       Ran(c, {"resolve"}) /\ q[c.inst].latestFetchId = c.id
       => \A j \in mounted \ {c.inst} :
            Idle(j, c.tempKey)
            => q'[j].data = lastEvent'.val /\ NoFetchCallBy(j)]_vars

\* C9 (amended): the same for every other instance whose resolved stale time is
\* not 0 and whose cached view of k did not hold v already
C9_IdleCachingInstancesAdoptNewValue ==
  [][\A c \in chains :
       Ran(c, {"resolve"}) /\ q[c.inst].latestFetchId = c.id
       => \A j \in mounted \ {c.inst} :
            /\ Idle(j, c.tempKey)
            /\ (IF opts[j].staleTime = NoNum THEN client.defaultStaleTime
                 ELSE opts[j].staleTime[1]) # 0
            /\ q[j].cacheValue # lastEvent'.val
            => q'[j].data = lastEvent'.val /\ NoFetchCallBy(j)]_vars

\* an instance that never fetched shows the value another instance fetched
C9_AdoptedWithoutFetching ==
  /\ lastEvent.op = "resolve"
  /\ \E j \in mounted \ {lastEvent.inst} :
       /\ q[j].data = lastEvent.val
       /\ q[j].realKey = lastEvent.key
       /\ q[j].origins = <<>>

\* C11: right after clearCache() the store holds no entry under any key the
\* instance has ever resolved to, its current key included, at every call
C11_ClearCacheRemovesEveryUsedKey ==
  [][\A i \in mounted :
       lastEvent'.op = "clearCache" /\ lastEvent'.inst = i
       => \A k \in q[i].usedKeys : ~cache'[k].present]_vars

\* options with initial data
HasInitialData(i) == isDef(opts[i].initialData)

\* C12: an instance created with initialData shows it in data, counts as
\* initialized, and has written it to the cache under its key, stamped with
\* initialDataUpdatedAt when supplied and with the creation time otherwise
C12_InitialDataSeedsDataAndCache ==
  \A i \in mounted :
    lastEvent.op = "init" /\ HasInitialData(i)
    => /\ q[i].data = opts[i].initialData
       /\ q[i].isInitialized
       /\ cache[q[i].realKey] =
            EntryOf(opts[i].initialData,
                    IF opts[i].initialDataUpdatedAt = NoNum THEN now
                    ELSE opts[i].initialDataUpdatedAt[1])

C12_SeededWithSuppliedTimestamp ==
  /\ lastEvent.op = "init"
  /\ HasInitialData("q1")
  /\ opts["q1"].initialDataUpdatedAt = <<0>>
  /\ cache["k1"] = EntryOf("init", 0)
  /\ q["q1"].data = "init"

\* C13 (as stated): an instance created with initialData calls the fetch
\* function only after a manual refetch() or a key change
C13_InitialDataPreventsFirstFetch ==
  \A i \in mounted :
    HasInitialData(i) /\ q[i].usedKeys = {"k1"}
    /\ (\A n \in 1..Len(q[i].origins) : q[i].origins[n] # "manual")
    => q[i].origins = <<>>

\* options with placeholder data and no initial data
PlaceholderOnly(i) == isDef(opts[i].placeholderData) /\ ~HasInitialData(i)

\* the placeholder is on display: data holds it, the instance is not
\* initialized and the store holds no entry
ShowsPlaceholder(qq, c, i) ==
  /\ qq[i].data = opts[i].placeholderData
  /\ ~qq[i].isInitialized
  /\ \A k \in Keys : ~c[k].present

\* C14: placeholderData is shown from creation until a fetch result arrives,
\* is never cached and never marks the instance initialized, and the first
\* automatic fetch is still started
C14_PlaceholderShownNotCached ==
  /\ \A i \in mounted : PlaceholderOnly(i) => ShowsPlaceholder(q, cache, i)
  /\ [][\A i \in mounted :
          PlaceholderOnly(i) /\ ShowsPlaceholder(q, cache, i)
          => /\ lastEvent'.op # "resolve" => ShowsPlaceholder(q', cache', i)
             /\ (lastEvent'.op = "keyChange" /\ lastEvent'.inst = i
                 /\ q[i].enabled /\ q[i].origins = <<>>)
                => StartsFetch(i)]_vars

C14_PlaceholderDuringFirstFetch ==
  /\ PlaceholderOnly("q1")
  /\ ShowsPlaceholder(q, cache, "q1")
  /\ q["q1"].origins = <<"key">>
  /\ q["q1"].isLoading

\* C15: once the owner is disposed, a chain that wakes from its backoff makes
\* no further fetch call and schedules no further backoff: the chain is over
C15_NoRetryAfterDisposal ==
  [][\A c \in chains :
       Ran(c, {"wake"}) /\ q[c.inst].isCleanedUp
       => Ended(c)]_vars

C15_WokeAfterDisposal ==
  /\ lastEvent.op = "wake"
  /\ lastEvent.inst = "q1"
  /\ q["q1"].isCleanedUp
  /\ lastEvent.calls = 1
  /\ ~\E c \in chains : c.inst = "q1" /\ c.seq = lastEvent.seq

\* C16 (as stated): when the owner is disposed while a chain waits in its
\* backoff, no error callback is invoked afterwards on behalf of that chain
C16_NoCallbackAfterDisposal ==
  [][\A c \in chains :
       Ran(c, {"wake"}) /\ q[c.inst].isCleanedUp => cbLog' = <<>>]_vars

\* the debounced handler of instance i ran in this step
HandlerRan(i) == lastEvent'.op = "keyChange" /\ lastEvent'.inst = i

\* the key of instance i changed in this step
KeyChanged(i) == lastEvent'.op = "setKey" /\ lastEvent'.inst = i

\* a burst of key changes gets one handler run, against the final key, and no
\* fetch for an intermediate key: the handler runs only once 100 ms have
\* passed since the last change, with the current key, and a key change
\* starts no fetch itself
OneRunAgainstFinalKey(i) ==
  /\ HandlerRan(i)
     => /\ lastEvent'.key = q[i].realKey
        /\ q[i].debounce # 0 /\ q[i].debounce <= now
        /\ q'[i].debounce = 0
        /\ \A c \in chains' \ chains : c.inst = i /\ c.tempKey = q[i].realKey
  /\ KeyChanged(i)
     => /\ chains' = chains
        /\ q'[i].debounce = now + DebounceDelay

C18_FailureKeepsData ==
  [][\A c \in chains :
       Ran(c, {"reject", "wake"}) => q'[c.inst].data = q[c.inst].data]_vars

C18_ErrorWithEarlierData ==
  /\ lastEvent.op = "reject"
  /\ lastEvent.inst = "q1"
  /\ q["q1"].isError
  /\ q["q1"].data = "d1"

\* C19 (as stated): when an automatically started fetch runs out of retries,
\* the error is recorded in isError and is not re-thrown: the promise of the
\* fetch is not left rejected without a handler
C19_AutomaticFailureNotRethrown ==
  [][\A c \in chains :
       Exhausts(c) /\ c.origin # "manual"
       => q'[c.inst].isError /\ lastEvent'.thrown = "none"]_vars

\* a value JSON.stringify and JSON.parse give back unchanged
Serializable(v) == v # Undef /\ v # NaN

\* what getCache(key, <<s>>) is to return on the store c at time t
ExpectedRead(c, key, s, t) ==
  IF s < 0 \/ t - c[key].timestamp <= s THEN c[key].written ELSE Null

\* C20: after setCache(k, v, t) of a serializable v, with no later write or
\* removal of k, getCache(k, s) for a non-zero s returns v if s < 0 or
\* now - t <= s and null otherwise; with s = -1 it returns v at any age
C20_GetCacheAfterSetCache ==
  [][/\ lastEvent'.op = "setCache" /\ isDefNum(lastEvent'.res)
        => cache'[lastEvent'.key].timestamp = lastEvent'.res[1]
     /\ (/\ lastEvent'.op = "getCache"
         /\ isDefNum(lastEvent'.val) /\ lastEvent'.val[1] # 0
         /\ cache[lastEvent'.key].present
         /\ Serializable(cache[lastEvent'.key].written))
        => lastEvent'.res =
             ExpectedRead(cache, lastEvent'.key, lastEvent'.val[1], now)]_vars

C20_OldEntryReadWithoutLimit ==
  /\ lastEvent.op = "getCache"
  /\ lastEvent.val = <<-1>>
  /\ cache[lastEvent.key].present
  /\ now - cache[lastEvent.key].timestamp > RetryDelay
  /\ lastEvent.res = "d1"

\* the stale time a getCache call works with
ResolvedStaleTime(staleTime) ==
  IF staleTime = NoNum THEN client.defaultStaleTime ELSE staleTime[1]

\* C21: getCache returns null for every key, stored or not, whenever the
\* resolved stale time (the argument, or the client default if omitted) is 0
C21_StaleTimeZeroReadsNull ==
  [][lastEvent'.op = "getCache" /\ ResolvedStaleTime(lastEvent'.val) = 0
     => lastEvent'.res = Null]_vars

C21_StoredEntryReadAsNull ==
  /\ lastEvent.op = "getCache"
  /\ lastEvent.val = NoNum
  /\ client.defaultStaleTime = 0
  /\ cache[lastEvent.key].present
  /\ cache[lastEvent.key].written = "d1"
  /\ lastEvent.res = Null

\* the entry of key holds text that JSON.parse rejects
Corrupted(c, key) == c[key].present /\ ~JSONparses(c[key].jsonData)

\* getCache(key, staleTime) at t gets as far as JSON.parse
ParseTried(c, key, staleTime, t) ==
  /\ ResolvedStaleTime(staleTime) # 0
  /\ c[key].jsonData # NoText
  /\ ~(ResolvedStaleTime(staleTime) > 0
       /\ t - c[key].timestamp > ResolvedStaleTime(staleTime))

\* C22 (as stated): a getCache call on an entry whose text is not valid JSON
\* returns null and leaves the entry absent, whatever the staleTime argument
C22_CorruptEntryAlwaysRemoved ==
  [][lastEvent'.op = "getCache" /\ Corrupted(cache, lastEvent'.key)
     => lastEvent'.res = Null /\ ~cache'[lastEvent'.key].present]_vars

\* C22 (amended): the call returns null in every case, but the entry is
\* removed only when JSON.parse is reached: the text is non-empty, the
\* resolved stale time is not 0 and the entry is not stale; otherwise the
\* entry stays as it was
C22_CorruptEntryRemovedWhenParsed ==
  [][lastEvent'.op = "getCache" /\ Corrupted(cache, lastEvent'.key)
     => /\ lastEvent'.res = Null
        /\ IF ParseTried(cache, lastEvent'.key, lastEvent'.val, now)
           THEN cache' = [cache EXCEPT ![lastEvent'.key] = NoEntry]
           ELSE cache' = cache]_vars

C22_CorruptEntrySurvivesRead ==
  /\ lastEvent.op = "getCache"
  /\ lastEvent.val = <<0>>
  /\ lastEvent.res = Null
  /\ cache[lastEvent.key].present
  /\ cache[lastEvent.key].jsonData = <<"text", "invalid json{">>

\* C23 (as stated): removeCache(k) deletes the entry and the per-key GC
\* configuration of k and nothing else; on an absent k it changes nothing,
\* and a second call changes nothing more
C23_RemoveCacheDeletesEntryAndGcConf ==
  [][lastEvent'.op = "removeCache"
     => /\ cache' = [cache EXCEPT ![lastEvent'.key] = NoEntry]
        /\ gcConf' = [gcConf EXCEPT ![lastEvent'.key] = NoNum]]_vars

\* the step is one sweep, called by the application or by the interval timer
Swept == lastEvent'.op \in {"gc", "gcTick"}

\* the GC duration of key as the specification resolves it: the per-key
\* configuration, and the store-wide default for a key without one
ConfiguredGcTime(key) ==
  IF isDefNum(gcConf[key]) THEN gcConf[key][1] ELSE DefaultGcTime

\* C24 (as stated): one sweep removes exactly the entries whose resolved GC
\* duration is positive and exceeded by their age, and leaves every other
\* entry untouched
C24_SweepRemovesExactlyExpired ==
  [][Swept
     => cache' = [k \in Keys |->
                    IF /\ cache[k].present
                       /\ ConfiguredGcTime(k) > 0
                       /\ now - cache[k].timestamp > ConfiguredGcTime(k)
                    THEN NoEntry ELSE cache[k]]]_vars

\* C25 (as stated): an entry whose per-key GC duration is 0 survives every
\* sweep, however old it is
C25_ZeroGcTimeNeverCollected ==
  [][Swept
     => \A k \in Keys :
          cache[k].present /\ gcConf[k] = <<0>> => cache'[k] = cache[k]]_vars

EffectiveGcTime(key) ==
  IF isDefNum(gcConf[key]) /\ gcConf[key][1] > 0 THEN gcConf[key][1]
  ELSE DefaultGcTime

StaleTimeOption(i) ==
  IF isDefNum(opts[i].staleTime) THEN opts[i].staleTime[1] ELSE 0

ElementsOf(key) == flat(key.items)

\* two keys hold the same values the same number of times
SameMultiset(a, b) ==
  \A x \in KeyElems : CountOf(ElementsOf(a), x) = CountOf(ElementsOf(b), x)

\* C28: keys with the same multiset of flattened elements get the same
\* canonical key: permutations of each other, and a nested array and its
\* flattened form, null and undefined included
C28_SameElementsSameCanonicalKey ==
  lastEvent.op = "getRealQueryKey" /\ SameMultiset(lastEvent.key, lastEvent.val)
  => lastEvent.res[1] = lastEvent.res[2]

C28_NestedAndPermutedAgree ==
  /\ lastEvent.op = "getRealQueryKey"
  /\ lastEvent.key = KeyArray(<<Nested(<<Undef, Null>>), Single("a")>>)
  /\ lastEvent.val = KeyArray(<<Single(Null), Single("a"), Single(Undef)>>)
  /\ lastEvent.res[1] = lastEvent.res[2]
  /\ lastEvent.res[1] = parseKey("a") \o parseKey(Null) \o parseKey(Undef)

\* C29 (as stated): keys that differ as multisets of flattened elements get
\* different canonical keys
C29_DifferentElementsDifferentCanonicalKey ==
  lastEvent.op = "getRealQueryKey" /\ ~SameMultiset(lastEvent.key, lastEvent.val)
  => lastEvent.res[1] # lastEvent.res[2]

\* C30 (as stated): two distinct fetch chains of one instance never share a
\* generation id, also when both were started at the same clock instant
C30_GenerationIdsAreDistinct ==
  \A c \in chains, d \in chains :
    c.inst = d.inst /\ c.seq # d.seq => c.id # d.id

\* the chain succeeds in this step and its id is still the latest
SucceedsAsLatest(c) ==
  Ran(c, {"resolve"}) /\ q[c.inst].latestFetchId = c.id

\* C31 (as stated): a success whose generation id is still the latest is
\* adopted into data, marks the instance initialized and clears isError,
\* whatever happened to the key since the fetch was started
C31_LatestSuccessAlwaysAdopted ==
  [][\A c \in chains :
       SucceedsAsLatest(c)
       => /\ q'[c.inst].data = lastEvent'.val
          /\ q'[c.inst].isInitialized
          /\ ~q'[c.inst].isError]_vars

\* C31 (amended): such a success clears isError and is cached under the start
\* key in every case, but it is adopted into data and marks the instance
\* initialized only if the key is still the one the fetch was started with;
\* after a key change data and the initialized mark stay as they were
C31_LatestSuccessAdoptedUnderStartKey ==
  [][\A c \in chains :
       SucceedsAsLatest(c)
       => /\ ~q'[c.inst].isError
          /\ cache'[c.tempKey] = EntryOf(lastEvent'.val, now)
          /\ IF c.tempKey = q[c.inst].realKey
             THEN q'[c.inst].data = lastEvent'.val /\ q'[c.inst].isInitialized
             ELSE /\ q'[c.inst].data = q[c.inst].data
                  /\ q'[c.inst].isInitialized = q[c.inst].isInitialized]_vars

C31_SuccessAfterKeyChange ==
  /\ lastEvent.op = "resolve"
  /\ lastEvent.inst = "q1"
  /\ lastEvent.key = "k1"
  /\ q["q1"].realKey = "k2"
  /\ q["q1"].origins = <<"manual">>
  /\ q["q1"].data = Undef
  /\ ~q["q1"].isInitialized
  /\ cache["k1"].present

\* the cache differs between this state and the next at key k at most
OnlyKeyWritten(k) == \A k2 \in Keys \ {k} : cache'[k2] = cache[k2]

\* C32: a chain is started with the canonical key that is current at the
\* refetch call, keeps that key through all its retries, and its result is
\* written to the cache under that key and no other, also when the instance's
\* key has changed in flight
C32_ResultCachedUnderStartKey ==
  [][/\ \A d \in chains' :
          (\A c \in chains : c.inst # d.inst \/ c.seq # d.seq)
          => d.tempKey = q[d.inst].realKey
     /\ \A c \in chains, d \in chains' :
          (c.inst = d.inst /\ c.seq = d.seq) => d.tempKey = c.tempKey
     /\ \A c \in chains :
          SucceedsAsLatest(c)
          => /\ cache'[c.tempKey] = EntryOf(lastEvent'.val, now)
             /\ OnlyKeyWritten(c.tempKey)]_vars

C32_RetrySucceededAfterKeyChange ==
  /\ lastEvent.op = "resolve"
  /\ lastEvent.inst = "q1"
  /\ lastEvent.calls = 2
  /\ lastEvent.key = "k1"
  /\ q["q1"].realKey = "k2"
  /\ cache["k1"].present
  /\ ~cache["k2"].present

\* C33: a refetch call on an enabled instance sets isLoading and clears
\* isError before the fetch function is invoked, so that isError is false when
\* the chain starts even if the previous fetch ended in error
C33_RefetchClearsIsError ==
  [][\A i \in mounted :
       StartsFetch(i) => q'[i].isLoading /\ ~q'[i].isError]_vars

\* a newer refetch, started at a later clock instant, has replaced the chain
Superseded(c) == ~IsLatest(c) /\ q[c.inst].latestFetchId # c.id

\* C34: a failing chain that a newer refetch has superseded is abandoned
\* silently: when its fetch rejects or its backoff wait ends, it ends without
\* another call of the fetch function, leaves isError as it is, invokes no
\* error callback and its refetch promise does not reject
C34_SupersededChainAbandonedSilently ==
  [][\A c \in chains :
       (Ran(c, {"reject", "wake"}) /\ Superseded(c))
       => /\ Ended(c)
          /\ q'[c.inst].isError = q[c.inst].isError
          /\ cbLog' = <<>>
          /\ lastEvent'.thrown = "none"]_vars

\* the most recently started chain of instance i has not finished
LatestChainRunning(i) == \E c \in chains : c.inst = i /\ IsLatest(c)

\* C35: isLoading of an instance is true exactly while its most recently
\* started chain has not finished
C35_LoadingIffLatestChainRunning ==
  \A i \in Insts : q[i].isLoading <=> LatestChainRunning(i)

\* getCache(key, staleTime) at t finds a parsable entry that is stale
FoundStale(c, key, staleTime, t) ==
  /\ c[key].present
  /\ JSONparses(c[key].jsonData)
  /\ ResolvedStaleTime(staleTime) > 0
  /\ t - c[key].timestamp > ResolvedStaleTime(staleTime)

\* C36: a getCache call changes the store only by removing the entry it was
\* asked for when that entry's text fails to parse; a call that returns a
\* value, finds the key absent, finds the entry stale or resolves the stale
\* time to 0 leaves every cache entry and every GC configuration unchanged,
\* and an entry found stale is still returned under a negative stale time
C36_GetCacheOnlyRemovesUnparsable ==
  [][lastEvent'.op = "getCache"
     => LET key == lastEvent'.key
            staleTime == lastEvent'.val IN
        /\ gcConf' = gcConf
        /\ \A k \in Keys \ {key} : cache'[k] = cache[k]
        /\ cache' # cache => Corrupted(cache, key) /\ lastEvent'.res = Null
        /\ (\/ lastEvent'.res # Null
            \/ ~cache[key].present
            \/ ResolvedStaleTime(staleTime) = 0
            \/ FoundStale(cache, key, staleTime, now)) => cache' = cache
        /\ FoundStale(cache, key, staleTime, now)
           => /\ lastEvent'.res = Null
              /\ getCache(cache', client.defaultStaleTime, key, <<-1>>, now)
                   = JSONparse(cache[key].jsonData)]_vars

C36_StaleReadLeftEntry ==
  /\ lastEvent.op = "getCache"
  /\ lastEvent.res = Null
  /\ FoundStale(cache, lastEvent.key, lastEvent.val, now)
  /\ getCache(cache, client.defaultStaleTime, lastEvent.key, <<-1>>, now) = "d1"

\* C37: every chain calls the fetch function at most retry+1 times, and if
\* every call of the fetch function settles and timers expire, every refetch
\* call settles: once no new refetch is started, no chain is left in flight
\* and isLoading of every instance has become false and stays false
C37_EveryRefetchSettles ==
  /\ [](\A c \in chains : c.calls <= c.maxRetry + 1)
  /\ <>[](chains = {} /\ \A i \in Insts : ~q[i].isLoading)

C37_RetriedChainEnded ==
  /\ lastEvent.op = "reject"
  /\ lastEvent.calls = 2
  /\ chains = {}
  /\ q["q1"].isError
  /\ ~q["q1"].isLoading
  /\ inputs = 0

\* data of instance i is the value the cache holds for its current key
HoldsValueOfCurrentKey(i) ==
  /\ cache[q[i].realKey].present
  /\ q[i].data = JSONparse(cache[q[i].realKey].jsonData)

\* C40: if fetch calls succeed, then once the query is enabled and its key no
\* longer changes, data eventually holds a value cached or fetched for the
\* current key, also when the key changed while the query was disabled
C40_EnabledQueryShowsCurrentKey ==
  <>[](\A i \in mounted : q[i].enabled => HoldsValueOfCurrentKey(i))

\* instance i is live, on key, with a non-zero stale time under which the
\* entry of key is fresh, and neither loading, in error nor debouncing
Quiescent(i, key) ==
  /\ Idle(i, key)
  /\ q[i].debounce = 0
  /\ isDef(FreshValue(i, key, now))

\* C38: whenever two live instances have the same current key, the cache holds
\* an entry of that key that is fresh under the non-zero stale times of both,
\* and neither is loading, in error or inside its debounce window, the data of
\* both equal the cached value
C38_QuiescentInstancesAgreeWithCache ==
  \A i, j \in mounted, k \in Keys :
    (i # j /\ Quiescent(i, k) /\ Quiescent(j, k))
    => /\ q[i].data = JSONparse(cache[k].jsonData)
       /\ q[j].data = JSONparse(cache[k].jsonData)

\* C39: the key-change handler of an instance with positive stale time s
\* leaves the GC duration in force for its key at s or more; no later step
\* lowers the duration in force for any key, be it the handler of an instance
\* with a smaller stale time, clearCache, a fetch or a sweep; and a sweep
\* keeps every entry that an instance would still serve as fresh under a
\* stale time the duration in force covers
C39_GcTimeCoversStaleTime ==
  [][/\ \A i \in mounted :
          (HandlerRan(i) /\ StaleTimeOption(i) > 0)
          => LET k == lastEvent'.key IN
             IF isDefNum(gcConf'[k]) /\ gcConf'[k][1] > 0
             THEN gcConf'[k][1] >= StaleTimeOption(i)
             ELSE DefaultGcTime >= StaleTimeOption(i)
     /\ \A k \in Keys :
          (IF isDefNum(gcConf'[k]) /\ gcConf'[k][1] > 0
           THEN gcConf'[k][1] ELSE DefaultGcTime) >= EffectiveGcTime(k)
     /\ Swept
        => \A i \in mounted, k \in Keys :
             (/\ StaleTimeOption(i) > 0
              /\ EffectiveGcTime(k) >= StaleTimeOption(i)
              /\ isDef(FreshValue(i, k, now)))
             => cache'[k] = cache[k]]_vars

C39_SweepKeptLongLivedEntry ==
  /\ lastEvent.op = "gc"
  /\ cache["k1"].present
  /\ now - cache["k1"].timestamp > DefaultGcTime
  /\ gcConf["k1"] = <<400000>>
  /\ q["q1"].realKey = "k1"
  /\ q["q2"].realKey = "k1"

====
